---- MODULE Spec2Model ----
(***************************************************************************)
(* Model of the Last.fm tag-to-genre classifier, src/lastfm.py:            *)
(* GenreExtractionConfig, GenreExtractor and the fuzzywuzzy calls it       *)
(* makes (process.extractOne with scorer fuzz.ratio, pure-python difflib   *)
(* SequenceMatcher).                                                       *)
(*                                                                         *)
(* Python values are modelled as follows.                                  *)
(*   str            a TLA+ string; its characters are SubSeq(s, i, i)      *)
(*   list           a sequence                                             *)
(*   dict           a sequence of <<key, value>> pairs in insertion order  *)
(*                  (extractOne's tie-break depends on the key order)      *)
(*   Optional[str]  <<>> for None, <<s>> for the string s                  *)
(*   an entry of the input list: [type |-> "str", s |-> ...] for a string, *)
(*                  another type name for a non-string object              *)
(*   float fields   keyword_threshold and context_weight in tenths         *)
(***************************************************************************)
EXTENDS Integers, Sequences, FiniteSets, TLC

VARIABLES
    extractor,      \* the GenreExtractor instance: config and reference tables
    lastfm_tags,    \* argument of the current extract_genres call
    cleaned_tags,   \* extract_genres local, line 41
    filtered_tags,  \* extract_genres local, line 44
    matches,        \* the values of the loop local `genre`, line 49, per filtered tag
    genres,         \* extract_genres local, lines 47-51
    result,         \* the returned list, lines 38 and 54
    outcome,        \* "pending" | "idle" | "returned" | "raised"
    history         \* the calls made on this instance: <<input, output>> records

vars == <<extractor, lastfm_tags, cleaned_tags, filtered_tags, matches, genres,
          result, outcome, history>>

(***************************************************************************)
(* Reference data, lines 206-459.                                          *)
(***************************************************************************)
_load_genre_taxonomy ==
    <<
       <<"rock", "rock">>, <<"pop", "pop">>, <<"hip-hop", "hip-hop">>,
       <<"hiphop", "hip-hop">>, <<"hip hop", "hip-hop">>, <<"electronic", "electronic">>,
       <<"jazz", "jazz">>, <<"blues", "blues">>, <<"country", "country">>,
       <<"classical", "classical">>, <<"reggae", "reggae">>, <<"metal", "metal">>,
       <<"punk", "punk">>, <<"folk", "folk">>, <<"indie", "indie">>,
       <<"alternative", "alternative">>, <<"rnb", "rnb">>, <<"soul", "soul">>,
       <<"funk", "funk">>, <<"house", "house">>, <<"techno", "techno">>,
       <<"dubstep", "dubstep">>, <<"ambient", "ambient">>, <<"experimental", "experimental">>,
       <<"trance", "trance">>, <<"drum and bass", "drum and bass">>, <<"dnb", "drum and bass">>,
       <<"breakbeat", "breakbeat">>, <<"garage", "garage">>, <<"trap", "trap">>,
       <<"drill", "drill">>, <<"grime", "grime">>, <<"synthwave", "synthwave">>,
       <<"vaporwave", "vaporwave">>, <<"chillwave", "chillwave">>, <<"darkwave", "darkwave">>,
       <<"new wave", "new wave">>, <<"post-punk", "post-punk">>, <<"post-rock", "post-rock">>,
       <<"shoegaze", "shoegaze">>, <<"dream pop", "dream pop">>, <<"britpop", "britpop">>,
       <<"grunge", "grunge">>, <<"emo", "emo">>, <<"screamo", "screamo">>,
       <<"hardcore", "hardcore">>, <<"metalcore", "metalcore">>, <<"deathcore", "deathcore">>,
       <<"black metal", "black metal">>, <<"death metal", "death metal">>, <<"thrash metal", "thrash metal">>,
       <<"heavy metal", "heavy metal">>, <<"power metal", "power metal">>, <<"progressive metal", "progressive metal">>,
       <<"doom metal", "doom metal">>, <<"sludge metal", "sludge metal">>, <<"stoner rock", "stoner rock">>,
       <<"psychedelic rock", "psychedelic rock">>, <<"garage rock", "garage rock">>, <<"surf rock", "surf rock">>,
       <<"rockabilly", "rockabilly">>, <<"skiffle", "skiffle">>, <<"bebop", "bebop">>,
       <<"swing", "swing">>, <<"big band", "big band">>, <<"smooth jazz", "smooth jazz">>,
       <<"fusion", "fusion">>, <<"free jazz", "free jazz">>, <<"cool jazz", "cool jazz">>,
       <<"hard bop", "hard bop">>, <<"delta blues", "delta blues">>, <<"chicago blues", "chicago blues">>,
       <<"electric blues", "electric blues">>, <<"rhythm and blues", "rhythm and blues">>, <<"motown", "motown">>,
       <<"neo-soul", "neo-soul">>, <<"northern soul", "northern soul">>, <<"southern soul", "southern soul">>,
       <<"gospel", "gospel">>, <<"spiritual", "spiritual">>, <<"bluegrass", "bluegrass">>,
       <<"americana", "americana">>, <<"alt-country", "alt-country">>, <<"outlaw country", "outlaw country">>,
       <<"honky-tonk", "honky-tonk">>, <<"western swing", "western swing">>, <<"dancehall", "dancehall">>,
       <<"roots reggae", "roots reggae">>, <<"dub reggae", "dub reggae">>, <<"ska punk", "ska punk">>,
       <<"two-tone", "two-tone">>, <<"calypso", "calypso">>, <<"soca", "soca">>,
       <<"salsa", "salsa">>, <<"merengue", "merengue">>, <<"bachata", "bachata">>,
       <<"cumbia", "cumbia">>, <<"reggaeton", "reggaeton">>, <<"latin pop", "latin pop">>,
       <<"bossa nova", "bossa nova">>, <<"samba", "samba">>, <<"forró", "forró">>,
       <<"mpb", "mpb">>, <<"tropicália", "tropicália">>, <<"fado", "fado">>,
       <<"flamenco", "flamenco">>, <<"tango", "tango">>, <<"mariachi", "mariachi">>,
       <<"ranchera", "ranchera">>, <<"norteño", "norteño">>, <<"conjunto", "conjunto">>,
       <<"tejano", "tejano">>, <<"zydeco", "zydeco">>, <<"cajun", "cajun">>,
       <<"celtic", "celtic">>, <<"irish traditional", "irish traditional">>, <<"scottish traditional", "scottish traditional">>,
       <<"klezmer", "klezmer">>, <<"polka", "polka">>, <<"waltz", "waltz">>,
       <<"mazurka", "mazurka">>, <<"tarantella", "tarantella">>, <<"fandango", "fandango">>
    >>

_load_genre_keywords ==
    <<
       "core", "wave", "step", "hop", "house", "techno", "trance",
       "metal", "rock", "punk", "folk", "jazz", "blues", "soul",
       "funk", "disco", "reggae", "ska", "dub", "ambient", "drone",
       "noise", "industrial", "gothic", "dark", "black", "death", "thrash",
       "speed", "power", "prog", "post", "neo", "new", "old",
       "classic", "modern", "contemporary", "traditional", "experimental", "alternative", "indie",
       "underground", "mainstream", "commercial", "lo-fi", "hi-fi", "electronica", "electronic",
       "digital", "analog", "acoustic", "electric", "bass", "drum", "beat",
       "rhythm", "tempo", "bpm", "major", "minor", "key", "scale",
       "mode", "harmony", "melody", "vocal", "instrumental", "orchestral", "symphonic",
       "chamber", "ensemble", "band", "group", "solo", "duo", "trio",
       "quartet", "quintet", "sextet", "septet", "octet"
    >>

_load_non_genre_keywords ==
    <<
       "seen", "live", "concert", "favorite", "best", "top", "love",
       "awesome", "great", "good", "bad", "terrible", "amazing", "perfect",
       "beautiful", "ugly", "boring", "exciting", "recommended", "suggestion", "playlist",
       "album", "single", "ep", "compilation", "soundtrack", "theme", "cover",
       "remix", "edit", "version", "mix", "radio", "clean", "explicit",
       "censored", "uncensored", "remastered", "deluxe", "special", "limited", "edition",
       "bonus", "track", "disc", "cd", "vinyl", "digital", "download",
       "stream", "youtube", "spotify", "apple", "amazon", "google", "bandcamp",
       "soundcloud", "male", "female", "vocalist", "singer", "musician", "artist",
       "band", "group", "duo", "trio", "quartet", "solo", "british",
       "american", "canadian", "australian", "german", "french", "italian", "spanish",
       "japanese", "korean", "chinese", "russian", "brazilian", "mexican", "indian",
       "summer", "winter", "spring", "autumn", "fall", "christmas", "holiday",
       "birthday", "party", "wedding", "funeral", "morning", "afternoon", "evening",
       "night", "midnight", "driving", "walking", "running", "workout", "exercise",
       "study", "work", "sleep", "relax", "chill", "background", "emotional",
       "sad", "happy", "angry", "depressed", "excited", "romantic", "nostalgic",
       "melancholic", "upbeat", "mellow", "energetic", "calm", "peaceful", "aggressive",
       "violent"
    >>

_load_non_genre_patterns ==
    <<
       [kind |-> "digits_s", text |-> "2"], [kind |-> "digits_opt_s", text |-> "4"],
       [kind |-> "contains", text |-> "seen live"], [kind |-> "contains", text |-> "favorite"],
       [kind |-> "contains", text |-> "recommended"], [kind |-> "contains", text |-> "love"],
       [kind |-> "contains", text |-> "awesome"], [kind |-> "contains", text |-> "best"],
       [kind |-> "contains", text |-> "top"], [kind |-> "contains", text |-> "favorite"],
       [kind |-> "contains", text |-> "male"], [kind |-> "contains", text |-> "female"],
       [kind |-> "contains", text |-> "british"], [kind |-> "contains", text |-> "american"],
       [kind |-> "contains", text |-> "canadian"], [kind |-> "contains", text |-> "australian"],
       [kind |-> "contains", text |-> "german"], [kind |-> "contains", text |-> "french"],
       [kind |-> "contains", text |-> "italian"], [kind |-> "contains", text |-> "chill"],
       [kind |-> "contains", text |-> "relax"], [kind |-> "contains", text |-> "emotional"],
       [kind |-> "contains", text |-> "romantic"], [kind |-> "contains", text |-> "sad"],
       [kind |-> "contains", text |-> "happy"], [kind |-> "contains", text |-> "energetic"],
       [kind |-> "contains", text |-> "melancholic"], [kind |-> "contains", text |-> "upbeat"],
       [kind |-> "contains", text |-> "mellow"], [kind |-> "contains", text |-> "nostalgic"],
       [kind |-> "contains", text |-> "party"], [kind |-> "contains", text |-> "dance"],
       [kind |-> "contains", text |-> "summer"], [kind |-> "contains", text |-> "winter"],
       [kind |-> "contains", text |-> "night"], [kind |-> "contains", text |-> "morning"],
       [kind |-> "contains", text |-> "driving"], [kind |-> "contains", text |-> "workout"],
       [kind |-> "contains", text |-> "study"], [kind |-> "contains", text |-> "background"],
       [kind |-> "contains", text |-> "instrumental"], [kind |-> "contains", text |-> "acoustic"],
       [kind |-> "contains", text |-> "live"], [kind |-> "contains", text |-> "cover"],
       [kind |-> "contains", text |-> "remix"], [kind |-> "contains", text |-> "radio"],
       [kind |-> "contains", text |-> "edit"], [kind |-> "contains", text |-> "version"],
       [kind |-> "contains", text |-> "mix"], [kind |-> "contains", text |-> "single"],
       [kind |-> "contains", text |-> "album"], [kind |-> "contains", text |-> "ep"],
       [kind |-> "contains", text |-> "compilation"], [kind |-> "contains", text |-> "soundtrack"],
       [kind |-> "contains", text |-> "theme"], [kind |-> "contains", text |-> "christmas"],
       [kind |-> "contains", text |-> "holiday"]
    >>

_load_genre_families ==
    <<
       [family |-> "rock", genres |-> <<"rock", "alternative", "indie", "grunge", "punk", "metal">>],
       [family |-> "electronic", genres |-> <<"electronic", "techno", "house", "trance", "dubstep", "ambient">>],
       [family |-> "hip_hop", genres |-> <<"hip-hop", "rap", "trap", "drill", "boom", "bap">>],
       [family |-> "jazz", genres |-> <<"jazz", "bebop", "swing", "fusion", "smooth", "free">>],
       [family |-> "blues", genres |-> <<"blues", "rhythm", "delta", "chicago", "electric">>],
       [family |-> "country", genres |-> <<"country", "folk", "bluegrass", "americana", "western">>],
       [family |-> "classical", genres |-> <<"classical", "baroque", "romantic", "modern", "opera">>],
       [family |-> "reggae", genres |-> <<"reggae", "ska", "dub", "dancehall", "roots">>],
       [family |-> "pop", genres |-> <<"pop", "dance", "disco", "synthpop", "electropop">>],
       [family |-> "r&b", genres |-> <<"rnb", "soul", "funk", "motown", "neo-soul">>]
    >>

\* normalizations, lines 194-202
normalizations ==
    <<
       <<"hiphop", "hip-hop">>, <<"hip hop", "hip-hop">>, <<"r&b", "rnb">>,
       <<"r and b", "rnb">>, <<"electronic music", "electronic">>,
       <<"alt rock", "alternative rock">>, <<"alternative", "alternative rock">>
    >>

\* musical_indicators, line 144
musical_indicators == <<"music", "sound", "beat", "rhythm", "style", "wave">>

(***************************************************************************)
(* Python str, re and dict primitives.                                     *)
(***************************************************************************)
ascii_uppercase == "ABCDEFGHIJKLMNOPQRSTUVWXYZ"
ascii_lowercase == "abcdefghijklmnopqrstuvwxyz"
digits == "0123456789"
\* the non-ASCII letters that occur in the taxonomy
other_letters == "áñó"
whitespace == " \t\n"

Chars(s) == [i \in 1..Len(s) |-> SubSeq(s, i, i)]
CharSet(s) == {SubSeq(s, i, i) : i \in 1..Len(s)}

SpaceChars == CharSet(whitespace)
DigitChars == CharSet(digits)
UpperChars == CharSet(ascii_uppercase)
WordChars ==
    CharSet(ascii_lowercase) \cup UpperChars \cup DigitChars
        \cup CharSet(other_letters) \cup {"_"}

\* c.isspace(), regex \s
isspace(c) == c \in SpaceChars
\* regex \d
isdigit(c) == c \in DigitChars
\* regex \w: letters, digits and the underscore
isword(c) == c \in WordChars

lower_char(c) ==
    IF c \in UpperChars
    THEN LET i == CHOOSE k \in 1..Len(ascii_uppercase) : SubSeq(ascii_uppercase, k, k) = c
         IN SubSeq(ascii_lowercase, i, i)
    ELSE c

RECURSIVE str_map(_, _, _)
\* the string whose i-th character is f[s[i]], built from position i on
str_map(f, s, i) ==
    IF i > Len(s) THEN "" ELSE f[SubSeq(s, i, i)] \o str_map(f, s, i + 1)

\* s.lower()
str_lower(s) == str_map([c \in CharSet(s) |-> lower_char(c)], s, 1)

RECURSIVE lstrip(_)
lstrip(s) ==
    IF Len(s) > 0 /\ isspace(SubSeq(s, 1, 1)) THEN lstrip(SubSeq(s, 2, Len(s))) ELSE s

RECURSIVE rstrip(_)
rstrip(s) ==
    IF Len(s) > 0 /\ isspace(SubSeq(s, Len(s), Len(s)))
    THEN rstrip(SubSeq(s, 1, Len(s) - 1)) ELSE s

\* s.strip()
str_strip(s) == rstrip(lstrip(s))

\* re.sub(r'[^\w\s-]', '', s)
re_sub_special(s) ==
    str_map([c \in CharSet(s) |-> IF isword(c) \/ isspace(c) \/ c = "-" THEN c ELSE ""], s, 1)

RECURSIVE re_sub_spaces_from(_, _)
re_sub_spaces_from(s, i) ==
    IF i > Len(s) THEN ""
    ELSE IF isspace(SubSeq(s, i, i))
         THEN IF i > 1 /\ isspace(SubSeq(s, i - 1, i - 1))
              THEN re_sub_spaces_from(s, i + 1)
              ELSE " " \o re_sub_spaces_from(s, i + 1)
         ELSE SubSeq(s, i, i) \o re_sub_spaces_from(s, i + 1)

\* re.sub(r'\s+', ' ', s): every run of whitespace becomes one space
re_sub_spaces(s) == re_sub_spaces_from(s, 1)

\* sub in s
str_contains(sub, s) ==
    \E i \in 1..(Len(s) - Len(sub) + 1) : SubSeq(s, i, i + Len(sub) - 1) = sub

\* key in d
dict_has(d, key) == \E i \in 1..Len(d) : d[i][1] = key

\* d[key]
dict_get(d, key) == d[CHOOSE i \in 1..Len(d) : d[i][1] = key][2]

\* list(d.keys())
dict_keys(d) == [i \in 1..Len(d) |-> d[i][1]]

all_digits(s) == \A i \in 1..Len(s) : isdigit(SubSeq(s, i, i))

\* a pattern of lines 340-396 against an already lower-cased tag
re_match_lowered(pattern, t) ==
    CASE pattern.kind = "contains" -> str_contains(pattern.text, t)
      [] pattern.kind = "digits_s" ->          \* ^\d{2}s$
            Len(t) = 3 /\ all_digits(SubSeq(t, 1, 2)) /\ SubSeq(t, 3, 3) = "s"
      [] pattern.kind = "digits_opt_s" ->      \* ^\d{4}s?$
            \/ Len(t) = 4 /\ all_digits(t)
            \/ Len(t) = 5 /\ all_digits(SubSeq(t, 1, 4)) /\ SubSeq(t, 5, 5) = "s"

\* re.match(pattern, tag, re.IGNORECASE), line 83.  A cleaned tag holds no line
\* break, so `.*text.*` matches exactly when the tag contains text, and
\* `favorites?` matches wherever `favorite` does.
re_match(pattern, tag) == re_match_lowered(pattern, str_lower(tag))

(***************************************************************************)
(* fuzzywuzzy, as called from line 116: process.extractOne(tag, keys,      *)
(* scorer=fuzz.ratio) with the default processor utils.full_process, and   *)
(* fuzz.ratio over difflib.SequenceMatcher (no junk; autojunk only applies *)
(* from 200 characters on).                                                *)
(***************************************************************************)

\* utils.full_process: every non-word character becomes a space, then
\* lower(), then strip()
full_process(s) ==
    str_strip(str_lower(str_map([c \in CharSet(s) |-> IF isword(c) THEN c ELSE " "], s, 1)))

RECURSIVE common_suffix(_, _, _, _, _, _)
\* length of the longest common block of a[alo..i] and b[blo..j] that ends at
\* a[i] and b[j] (0-based positions, as in difflib's j2len)
common_suffix(a, b, i, j, alo, blo) ==
    IF a[i + 1] # b[j + 1] THEN 0
    ELSE IF i > alo /\ j > blo THEN 1 + common_suffix(a, b, i - 1, j - 1, alo, blo)
    ELSE 1

\* the largest size among blocks
bestsize_of(blocks) ==
    CHOOSE k \in {x[3] : x \in blocks} : \A x \in blocks : x[3] <= k

\* of the blocks, all of one size and given by their last positions, the one
\* that is earliest in a and, of those, earliest in b
earliest(longest) ==
    CHOOSE x \in longest :
        \A y \in longest : x[1] < y[1] \/ (x[1] = y[1] /\ x[2] <= y[2])

\* <<i, j, k>> of the block of size k that ends at a[x[1]] and b[x[2]]
block_from_end(x) == <<x[1] - x[3] + 1, x[2] - x[3] + 1, x[3]>>

best_block(blocks, bestsize, alo, blo) ==
    IF bestsize = 0 THEN <<alo, blo, 0>>
    ELSE block_from_end(earliest({x \in blocks : x[3] = bestsize}))

\* SequenceMatcher.find_longest_match(alo, ahi, blo, bhi): <<i, j, k>>, the
\* longest block a[i:i+k] = b[j:j+k] within the window.  The loops keep the
\* first block, in the order of i and then of j, that is longer than every
\* block before it: of the longest blocks the one that starts earliest in a
\* and, of those, earliest in b; <<alo, blo, 0>> when no character matches.
longest_of(blocks, alo, blo) ==
    IF blocks = {} THEN <<alo, blo, 0>>
    ELSE best_block(blocks, bestsize_of(blocks), alo, blo)

find_longest_match(a, b, alo, ahi, blo, bhi) ==
    longest_of({<<i, j, common_suffix(a, b, i, j, alo, blo)>> :
                   i \in alo..(ahi - 1), j \in blo..(bhi - 1)},
               alo, blo)

RECURSIVE matching_size(_, _, _, _, _, _)

\* get_matching_blocks: the block x, and the blocks to its left and right
blocks_around(a, b, alo, ahi, blo, bhi, x) ==
    IF x[3] = 0 THEN 0
    ELSE x[3]
         + (IF alo < x[1] /\ blo < x[2]
            THEN matching_size(a, b, alo, x[1], blo, x[2]) ELSE 0)
         + (IF x[1] + x[3] < ahi /\ x[2] + x[3] < bhi
            THEN matching_size(a, b, x[1] + x[3], ahi, x[2] + x[3], bhi) ELSE 0)

\* sum of the sizes of SequenceMatcher.get_matching_blocks() within the window
matching_size(a, b, alo, ahi, blo, bhi) ==
    blocks_around(a, b, alo, ahi, blo, bhi,
                  find_longest_match(a, b, alo, ahi, blo, bhi))

\* int(round(100 * 2.0 * m / t)): Python 3 rounds a half to the even integer
intr_percent(m, t) ==
    LET q == (200 * m) \div t
        r == (200 * m) % t
    IN  IF 2 * r < t THEN q
        ELSE IF 2 * r > t THEN q + 1
        ELSE IF q % 2 = 0 THEN q ELSE q + 1

\* fuzz.ratio(s1, s2)
fuzz_ratio(s1, s2) ==
    IF s1 = s2 THEN 100
    ELSE IF Len(s1) = 0 \/ Len(s2) = 0 THEN 0
    ELSE intr_percent(matching_size(Chars(s1), Chars(s2), 0, Len(s1), 0, Len(s2)),
                      Len(s1) + Len(s2))

\* the highest score among the scored choices <<index, score>>
top_score(scored) ==
    CHOOSE m \in {p[2] : p \in scored} : \A p \in scored : p[2] <= m

\* the first index among the scored choices that reached the score top
first_with(scored, top) ==
    CHOOSE i \in {p[1] : p \in scored} :
        /\ <<i, top>> \in scored
        /\ \A j \in 1..(i - 1) : <<j, top>> \notin scored

\* max(scored choices, key = score): Python's max keeps the first of several
\* highest-scoring choices
best_choice(choices, scored, top) == <<<<choices[first_with(scored, top)], top>>>>

scored_choices(processed_query, choices) ==
    {<<i, fuzz_ratio(processed_query, full_process(choices[i]))>> : i \in 1..Len(choices)}

best_of(choices, scored) == best_choice(choices, scored, top_score(scored))

\* process.extractOne(query, choices, scorer=fuzz.ratio): <<>> for None (no
\* choices), else <<<<choice, score>>>>
process_extractOne(query, choices) ==
    IF Len(choices) = 0 THEN <<>>
    ELSE best_of(choices, scored_choices(full_process(query), choices))

(***************************************************************************)
(* GenreExtractionConfig and GenreExtractor, lines 9-204.                  *)
(***************************************************************************)

\* the dataclass defaults, lines 12-16
GenreExtractionConfig ==
    [fuzzy_threshold |-> 80, min_tag_length |-> 2, max_tag_length |-> 50,
     keyword_threshold |-> 6, context_weight |-> 3]

\* GenreExtractor.__init__, lines 19-25
GenreExtractor(cfg) ==
    [config |-> cfg,
     known_genres |-> _load_genre_taxonomy,
     genre_keywords |-> _load_genre_keywords,
     non_genre_patterns |-> _load_non_genre_patterns,
     non_genre_keywords |-> _load_non_genre_keywords,
     genre_families |-> _load_genre_families]

\* mutant of isinstance_str: the type test of line 60 left out
isinstance_str_unchecked(tag) == TRUE

\* isinstance(tag, str), line 60
isinstance_str(tag) == tag.type = "str"

\* tag.lower(), line 64: an object that is no str has no such method, and the
\* call raises AttributeError
method_lower(tag) ==
    IF tag.type = "str" THEN [raised |-> FALSE, value |-> str_lower(tag.s)]
    ELSE [raised |-> TRUE, value |-> ""]

\* if genre: / if fuzzy_match: -- None and the empty string are false
truthy(opt) == opt # <<>> /\ Len(opt[1]) > 0

\* lines 64-66: the cleaned form of one entry
clean_lowered(lowered) ==
    IF lowered.raised THEN lowered
    ELSE [raised |-> FALSE,
          value |-> re_sub_spaces(re_sub_special(str_strip(lowered.value)))]

clean_tag(tag) == clean_lowered(method_lower(tag))

\* lines 69-70: the length test and the append
keep_by_length(self, tag, rest) ==
    IF tag.raised \/ rest.raised THEN [raised |-> TRUE, value |-> <<>>]
    ELSE IF /\ self.config.min_tag_length <= Len(tag.value)
            /\ Len(tag.value) <= self.config.max_tag_length
    THEN [rest EXCEPT !.value = <<tag.value>> \o @]
    ELSE rest

RECURSIVE clean_from(_, _, _)
clean_from(self, tags, i) ==
    IF i > Len(tags) THEN [raised |-> FALSE, value |-> <<>>]
    ELSE IF ~isinstance_str(tags[i]) THEN clean_from(self, tags, i + 1)
    ELSE keep_by_length(self, clean_tag(tags[i]), clean_from(self, tags, i + 1))

\* GenreExtractor._clean_tags, lines 56-72
_clean_tags(self, tags) == clean_from(self, tags, 1)

\* is_non_genre, lines 79-85
is_non_genre(self, tag) ==
    \E p \in 1..Len(self.non_genre_patterns) : re_match(self.non_genre_patterns[p], tag)

\* GenreExtractor._filter_non_genres, lines 74-90
_filter_non_genres(self, tags) ==
    SelectSeq(tags, LAMBDA tag : ~is_non_genre(self, tag))

\* mutant of accept_match: the comparison of line 122 made strict
accept_match_strict(self, match) ==
    IF match # <<>> /\ match[1][2] > self.config.fuzzy_threshold
    THEN <<dict_get(self.known_genres, match[1][1])>>
    ELSE <<>>

\* lines 122-125
accept_match(self, match) ==
    IF match # <<>> /\ match[1][2] >= self.config.fuzzy_threshold
    THEN <<dict_get(self.known_genres, match[1][1])>>
    ELSE <<>>

\* GenreExtractor._fuzzy_match_genre, lines 114-125
_fuzzy_match_genre(self, tag) ==
    accept_match(self, process_extractOne(tag, dict_keys(self.known_genres)))

\* lines 130-135 for the lower-cased tag
keywords_in(self, t) ==
    \E k \in 1..Len(self.genre_keywords) :
        /\ str_contains(self.genre_keywords[k], t)
        /\ ~\E n \in 1..Len(self.non_genre_keywords) :
               str_contains(self.non_genre_keywords[n], t)

\* GenreExtractor._is_genre_by_keywords, lines 127-135
_is_genre_by_keywords(self, tag) == keywords_in(self, str_lower(tag))

\* known_genre_count, line 140
known_genre_count(self, all_tags) ==
    Cardinality({i \in 1..Len(all_tags) : dict_has(self.known_genres, all_tags[i])})

\* lines 144-151 for the lower-cased tag
musical_or_family(self, t) ==
    \/ \E m \in 1..Len(musical_indicators) : str_contains(musical_indicators[m], t)
    \/ \E f \in 1..Len(self.genre_families) :
          \E g \in 1..Len(self.genre_families[f].genres) :
              str_contains(self.genre_families[f].genres[g], t)

\* mutant of _is_genre_by_context: one known genre in the context is enough
_is_genre_by_context_single(self, tag, all_tags) ==
    /\ known_genre_count(self, all_tags) >= 1
    /\ musical_or_family(self, str_lower(tag))

\* mutant of _is_genre_by_context: the count of known genres weighted by
\* config.context_weight
_is_genre_by_context_weighted(self, tag, all_tags) ==
    /\ known_genre_count(self, all_tags) * self.config.context_weight >= 6
    /\ musical_or_family(self, str_lower(tag))

\* GenreExtractor._is_genre_by_context, lines 137-153
_is_genre_by_context(self, tag, all_tags) ==
    /\ known_genre_count(self, all_tags) >= 2
    /\ musical_or_family(self, str_lower(tag))

\* mutant of after_fuzzy: the keyword strategy tried before the fuzzy match
after_fuzzy_keywords_first(self, tag, all_tags, fuzzy_match) ==
    IF _is_genre_by_keywords(self, tag) THEN <<tag>>
    ELSE IF truthy(fuzzy_match) THEN fuzzy_match
    ELSE IF _is_genre_by_context(self, tag, all_tags) THEN <<tag>>
    ELSE <<>>

\* lines 101-112: methods 2 to 4, given the fuzzy match
after_fuzzy(self, tag, all_tags, fuzzy_match) ==
    IF truthy(fuzzy_match) THEN fuzzy_match
    ELSE IF _is_genre_by_keywords(self, tag) THEN <<tag>>
    ELSE IF _is_genre_by_context(self, tag, all_tags) THEN <<tag>>
    ELSE <<>>

\* mutant of _extract_genre_from_tag: an exact key is returned as it is, not
\* mapped through the taxonomy
_extract_genre_from_tag_unmapped(self, tag, all_tags) ==
    IF dict_has(self.known_genres, tag) THEN <<tag>>
    ELSE after_fuzzy(self, tag, all_tags, _fuzzy_match_genre(self, tag))

\* GenreExtractor._extract_genre_from_tag, lines 92-112
_extract_genre_from_tag(self, tag, all_tags) ==
    IF dict_has(self.known_genres, tag)
    THEN <<dict_get(self.known_genres, tag)>>
    ELSE after_fuzzy(self, tag, all_tags, _fuzzy_match_genre(self, tag))

\* normalizations.get(key, genre), line 204
normalizations_get(key, genre) ==
    IF dict_has(normalizations, key) THEN dict_get(normalizations, key) ELSE genre

\* mutant of _normalize_genre_name: the synonym table is not applied
_normalize_genre_name_identity(genre) == genre

\* GenreExtractor._normalize_genre_name, lines 191-204
_normalize_genre_name(genre) == normalizations_get(str_lower(genre), genre)

\* mutant of add_unseen: a name not seen yet is put in front of the list
add_unseen_in_front(unique_genres, normalized) ==
    IF \E u \in 1..Len(unique_genres) : unique_genres[u] = normalized
    THEN unique_genres
    ELSE <<normalized>> \o unique_genres

\* lines 185-187
add_unseen(unique_genres, normalized) ==
    IF \E u \in 1..Len(unique_genres) : unique_genres[u] = normalized
    THEN unique_genres
    ELSE Append(unique_genres, normalized)

RECURSIVE dedup_from(_, _, _)
dedup_from(genres_, i, unique_genres) ==
    IF i > Len(genres_) THEN unique_genres
    ELSE dedup_from(genres_, i + 1,
                    add_unseen(unique_genres, _normalize_genre_name(genres_[i])))

\* mutant of _deduplicate_and_normalize: the `seen` test of line 185 left out
_deduplicate_and_normalize_keep_all(genres_) ==
    [i \in 1..Len(genres_) |-> _normalize_genre_name(genres_[i])]

\* GenreExtractor._deduplicate_and_normalize, lines 177-189; `seen` holds
\* exactly the entries of unique_genres
_deduplicate_and_normalize(genres_) == dedup_from(genres_, 1, <<>>)

\* the locals of an extract_genres call that did not get past line 41
no_locals(raised_) ==
    [raised |-> raised_, cleaned_tags |-> <<>>, filtered_tags |-> <<>>,
     matches |-> <<>>, genres |-> <<>>, result |-> <<>>]

\* lines 50-51: the genres appended, those of the matches that are true
appended(matches_) == [i \in 1..Len(matches_) |-> matches_[i][1]]

\* line 54
returned(cleaned, filtered, matches_, genres_) ==
    [raised |-> FALSE, cleaned_tags |-> cleaned, filtered_tags |-> filtered,
     matches |-> matches_, genres |-> genres_,
     result |-> _deduplicate_and_normalize(genres_)]

collected(cleaned, filtered, matches_) ==
    returned(cleaned, filtered, matches_, appended(SelectSeq(matches_, truthy)))

\* lines 47-51: the loop over the filtered tags
resolved(self, cleaned, filtered) ==
    collected(cleaned, filtered,
              [i \in 1..Len(filtered) |->
                  _extract_genre_from_tag(self, filtered[i], filtered)])

\* lines 41-54
cleaned_then(self, cleaned) ==
    IF cleaned.raised THEN no_locals(TRUE)
    ELSE resolved(self, cleaned.value, _filter_non_genres(self, cleaned.value))

\* GenreExtractor.extract_genres, lines 27-54: the locals and the returned list
extract_genres(self, tags) ==
    IF Len(tags) = 0 THEN no_locals(FALSE)
    ELSE cleaned_then(self, _clean_tags(self, tags))

\* mutant of self_after_extract_genres: a call that tunes the threshold of
\* the instance
self_after_extract_genres_tuned(self, tags) ==
    [self EXCEPT !.config.fuzzy_threshold = IF Len(tags) = 0 THEN @ ELSE @ - 1]

\* the instance after an extract_genres call: lines 27-125 assign no attribute
\* of self and change none of its tables
self_after_extract_genres(self, tags) == self

(***************************************************************************)
(* Inputs and configurations.                                              *)
(***************************************************************************)
Str(s) == [type |-> "str", s |-> s]
NonStr(t, repr) == [type |-> t, s |-> repr]

\* longest input drawn freely from Pool
MaxTags == 2
\* calls made on one shared instance
MaxCalls == 3

Pool == {Str("Rock"), Str("rock"), Str("alternative"), Str("chillwave"),
         Str("chilwave"), NonStr("int", "42")}

RECURSIVE SeqsUpTo(_, _)
SeqsUpTo(S, n) ==
    IF n = 0 THEN {<<>>}
    ELSE LET shorter == SeqsUpTo(S, n - 1)
         IN shorter \cup {Append(q, x) : q \in {p \in shorter : Len(p) = n - 1}, x \in S}

\* the contiguous parts of a list
Windows(tags) == {SubSeq(tags, i, j) : i \in 1..Len(tags), j \in 1..Len(tags)}

\* the example of main(), line 468
MainTags ==
    <<Str("2020"), Str("folk"), Str("folklore (deluxe version)"), Str("alternative"),
      Str("folk pop"), Str("indie folk"), Str("pop"), Str("chamber pop"), Str("indie"),
      Str("singer-songwriter")>>

\* one tag per resolution strategy: two exact keys, a context match, a tag the
\* keyword strategy refuses and the context strategy accepts, a tag nothing
\* accepts, a fuzzy match, a keyword match
StrategyTags ==
    <<Str("hiphop"), Str("dnb"), Str("k-pop"), Str("good rock"), Str("xyz"), Str("! rock"),
      Str("lo-fi")>>

\* best fuzzy scores 80 (folk), 79 (electric blues), 81 (western swing) and
\* 79 (scottish traditional)
ThresholdTags ==
    <<Str("folkie"), Str("electric house"), Str("southern swing"), Str("scottish trad")>>

\* entries that are no strings, empty, too short or too long
MalformedTags ==
    <<NonStr("int", "42"), Str(""), Str("x"),
      Str("regressive experimental psychedelic stoner doom jam"),
      NonStr("NoneType", "None"), Str("emo"), Str("country")>>

\* genre keywords as tags: three that are, or hold, a non-genre keyword as well
\* ("band", "step", "digital") and three that do not
KeywordTags ==
    <<Str("band"), Str("core"), Str("step"), Str("wave"), Str("digital"), Str("disco")>>

\* a taxonomy key the rule filter removes, keys it keeps, one of them twice,
\* and a tag only the context strategy accepts
ContextTags ==
    <<Str("dancehall"), Str("dnb"), Str("k-pop"), Str("rock"), Str("Rock")>>

\* tags whose resolved names share a normal form: "alt rock" and
\* "alternative", "electronic music" and "electronic"
OrderTags ==
    <<Str("alt rock"), Str("folk"), Str("alternative"), Str("electronic music"),
      Str("pop"), Str("electronic")>>

StrictConfig == [GenreExtractionConfig EXCEPT !.fuzzy_threshold = 81]
ShortConfig == [GenreExtractionConfig EXCEPT !.min_tag_length = 4, !.max_tag_length = 6]
KeywordConfig == [GenreExtractionConfig EXCEPT !.keyword_threshold = 9]
ContextConfig == [GenreExtractionConfig EXCEPT !.context_weight = 7]

\* the calls checked: <<config, lastfm_tags>>
Cases ==
    ({GenreExtractionConfig} \X
        (SeqsUpTo(Pool, MaxTags) \cup Windows(MainTags) \cup Windows(StrategyTags)
            \cup Windows(ThresholdTags) \cup Windows(MalformedTags)
            \cup Windows(KeywordTags) \cup Windows(ContextTags) \cup Windows(OrderTags)))
    \cup ({StrictConfig} \X Windows(ThresholdTags))
    \cup ({ShortConfig} \X Windows(MalformedTags))
    \cup ({KeywordConfig, ContextConfig} \X
            (Windows(StrategyTags) \cup Windows(ThresholdTags)))

\* the inputs of the calls made one after another on a shared instance
SharedInputs ==
    {<<>>, <<Str("Rock"), Str("rock")>>, <<Str("chilwave")>>,
     <<Str("90s"), Str("hiphop")>>, <<NonStr("int", "42"), Str("folk pop")>>}

(***************************************************************************)
(* The calls.                                                              *)
(***************************************************************************)

\* one extract_genres call on the instance, with its locals recorded
Run(tags) ==
    \E r \in {extract_genres(extractor, tags)} :
        /\ lastfm_tags' = tags
        /\ cleaned_tags' = r.cleaned_tags
        /\ filtered_tags' = r.filtered_tags
        /\ matches' = r.matches
        /\ genres' = r.genres
        /\ result' = r.result
        /\ outcome' = IF r.raised THEN "raised" ELSE "returned"
        /\ history' = Append(history, [input |-> tags, output |-> r.result])
        /\ extractor' = self_after_extract_genres(extractor, tags)

NoLocals ==
    /\ cleaned_tags = <<>>
    /\ filtered_tags = <<>>
    /\ matches = <<>>
    /\ genres = <<>>
    /\ result = <<>>
    /\ history = <<>>

\* main(), lines 463-471: an extractor is built and called once
Init ==
    /\ \E case \in Cases :
          /\ extractor = GenreExtractor(case[1])
          /\ lastfm_tags = case[2]
    /\ outcome = "pending"
    /\ NoLocals

ExtractGenres == outcome = "pending" /\ Run(lastfm_tags)

Next == ExtractGenres

Spec == Init /\ [][Next]_vars

\* one extractor with the default configuration, called again and again
InitShared ==
    /\ extractor = GenreExtractor(GenreExtractionConfig)
    /\ lastfm_tags = <<>>
    /\ outcome = "idle"
    /\ NoLocals

SharedCall ==
    /\ outcome # "pending"
    /\ Len(history) < MaxCalls
    /\ \E tags \in SharedInputs : Run(tags)

NextShared == SharedCall

SpecShared == InitShared /\ [][NextShared]_vars

(***************************************************************************)
(* The claims.                                                             *)
(***************************************************************************)
InSeq(x, s) == \E i \in 1..Len(s) : s[i] = x

Returned == outcome = "returned"

canonical_of(key) == _normalize_genre_name(dict_get(extractor.known_genres, key))

C2_FilteredTagNeverInOutput ==
    Returned =>
        \A i \in 1..Len(cleaned_tags) :
            is_non_genre(extractor, cleaned_tags[i]) => ~InSeq(cleaned_tags[i], result)

MainCall ==
    /\ Returned
    /\ lastfm_tags = MainTags
    /\ extractor.config = GenreExtractionConfig

\* C3, as stated: for the example of main() with the default configuration,
\* "2020" and "folklore (deluxe version)" are dropped, "alternative" comes out
\* as "alternative rock", and "folk", "folk pop", "indie folk", "pop",
\* "chamber pop", "indie" and "singer-songwriter" each come out once, all in
\* first-seen order.
C3_MainExampleKeepsSingerSongwriter ==
    MainCall =>
        result = <<"folk", "alternative rock", "folk pop", "indie folk", "pop",
                   "chamber pop", "indie", "singer-songwriter">>

\* C3, amended: for the example of main() with the default configuration,
\* "2020" and "folklore (deluxe version)" are dropped by the rule filter,
\* "alternative" comes out as "alternative rock", "folk", "folk pop",
\* "indie folk", "pop", "chamber pop" and "indie" each come out once, all in
\* first-seen order, and "singer-songwriter" passes the filter but is
\* discarded by the resolver.
C3_MainExample ==
    MainCall =>
        /\ filtered_tags = <<"folk", "alternative", "folk pop", "indie folk", "pop",
                             "chamber pop", "indie", "singer-songwriter">>
        /\ matches[Len(matches)] = <<>>
        /\ result = <<"folk", "alternative rock", "folk pop", "indie folk", "pop",
                      "chamber pop", "indie">>

\* the example of main() has returned, with ten tags cleaned and eight kept
C3_Witness == MainCall /\ Len(cleaned_tags) = 10 /\ Len(filtered_tags) = 8

\* C4: no two positions of the returned list hold the same string.
C4_OutputDuplicateFree ==
    Returned =>
        \A i, j \in 1..Len(result) : i # j => result[i] # result[j]

\* a returned call in which two resolved genres had the same normal form
C4_Witness ==
    /\ Returned
    /\ Len(result) >= 1
    /\ \E i, j \in 1..Len(genres) :
          i # j /\ _normalize_genre_name(genres[i]) = _normalize_genre_name(genres[j])

\* an entry from which _clean_tags keeps no tag: no string, or a string whose
\* cleaned form is empty or outside the length bounds
malformed(tag) ==
    \/ tag.type # "str"
    \/ Len(clean_tag(tag).value) < extractor.config.min_tag_length
    \/ Len(clean_tag(tag).value) > extractor.config.max_tag_length

\* C5: extract_genres is total.  No call raises; the empty input returns the
\* empty list; malformed entries are dropped, exactly the other entries being
\* cleaned.
C5_ExtractGenresTotal ==
    /\ outcome # "raised"
    /\ Returned =>
          /\ lastfm_tags = <<>> => result = <<>>
          /\ Len(cleaned_tags) =
                 Cardinality({i \in 1..Len(lastfm_tags) : ~malformed(lastfm_tags[i])})

\* a returned call whose input held a non-string, an empty string, a string
\* that is too short and one that is too long, next to two well-formed tags
C5_Witness ==
    /\ Returned
    /\ lastfm_tags = MalformedTags
    /\ extractor.config = GenreExtractionConfig
    /\ cleaned_tags = <<"emo", "country">>

inert_reset(cfg) ==
    [cfg EXCEPT !.keyword_threshold = GenreExtractionConfig.keyword_threshold,
                !.context_weight = GenreExtractionConfig.context_weight]

\* C7: the fields keyword_threshold and context_weight are inert: a call under
\* a configuration that sets them returns what the call with the same input
\* returns under the configuration that differs in these two fields only.
C7_InertConfigFields ==
    (Returned /\ extractor.config # inert_reset(extractor.config)) =>
        result = extract_genres(GenreExtractor(inert_reset(extractor.config)),
                                lastfm_tags).result

\* a call under a changed context_weight in which the context strategy, and
\* nothing else, accepted a tag
C7_Witness ==
    /\ Returned
    /\ extractor.config = ContextConfig
    /\ lastfm_tags = StrategyTags
    /\ InSeq("k-pop", result)

\* the best-scoring taxonomy key for the tag, with its score
best_key(tag) == process_extractOne(tag, dict_keys(extractor.known_genres))

\* what the threshold demands of the resolution of a tag with best match m
threshold_respected(tag, m, genre) ==
    /\ m[1][2] >= extractor.config.fuzzy_threshold
           => genre = <<dict_get(extractor.known_genres, m[1][1])>>
    /\ m[1][2] <= extractor.config.fuzzy_threshold - 1
           => genre \in {<<>>, <<tag>>}

\* C8: the fuzzy threshold is inclusive.  A filtered tag that is no exact key
\* resolves to the taxonomy value of its best-scoring key when the best score
\* is fuzzy_threshold or more; when it is fuzzy_threshold - 1 or less the
\* fuzzy strategy gives nothing, and the tag resolves as the later strategies
\* decide: to itself or to nothing.
C8_FuzzyThresholdInclusive ==
    Returned =>
        \A i \in 1..Len(filtered_tags) :
            ~dict_has(extractor.known_genres, filtered_tags[i]) =>
                threshold_respected(filtered_tags[i], best_key(filtered_tags[i]),
                                    matches[i])

\* "folkie" scored exactly the threshold and resolved to "folk", and
\* "electric house" scored one point less and resolved to itself
C8_Witness ==
    /\ Returned
    /\ filtered_tags = <<"folkie", "electric house">>
    /\ best_key("folkie") = <<<<"folk", extractor.config.fuzzy_threshold>>>>
    /\ best_key("electric house")[1][2] = extractor.config.fuzzy_threshold - 1
    /\ matches = <<<<"folk">>, <<"electric house">>>>

\* a string as a tag should leave the Normalizer
well_formed(self, t) ==
    /\ str_lower(t) = t
    /\ \A i \in 1..Len(t) :
          \/ SubSeq(t, i, i) \in (CharSet(ascii_lowercase) \cup DigitChars \cup {"-", " "})
          \/ SubSeq(t, i, i) \in CharSet(other_letters)
    /\ ~str_contains("  ", t)
    /\ str_strip(t) = t
    /\ self.config.min_tag_length <= Len(t)
    /\ Len(t) <= self.config.max_tag_length

\* C9: every string _clean_tags produces is lower-case, holds only
\* alphanumeric characters, hyphens and single spaces, has no leading or
\* trailing whitespace and a length within the bounds; the surviving tags keep
\* their input order, duplicates included.
C9_CleanTagsWellFormed ==
    Returned =>
        /\ \A i \in 1..Len(cleaned_tags) : well_formed(extractor, cleaned_tags[i])
        /\ cleaned_tags =
               [i \in 1..Len(cleaned_tags) |->
                   clean_tag(SelectSeq(lastfm_tags, LAMBDA tag : ~malformed(tag))[i]).value]

\* what the strategies, tried in order, give for a tag with fuzzy result fuzzy
first_success(self, tag, all_tags, fuzzy) ==
    IF dict_has(self.known_genres, tag) THEN <<dict_get(self.known_genres, tag)>>
    ELSE IF fuzzy # <<>> THEN fuzzy
    ELSE IF _is_genre_by_keywords(self, tag) \/ _is_genre_by_context(self, tag, all_tags)
         THEN <<tag>>
         ELSE <<>>

\* the fuzzy strategy's result for a tag that is no exact key
fuzzy_of(self, tag) ==
    IF dict_has(self.known_genres, tag) THEN <<>> ELSE _fuzzy_match_genre(self, tag)

\* C10: each filtered tag resolves to the result of the first strategy that
\* succeeds in the order exact, fuzzy, keyword, context: an exact key gives
\* its taxonomy value, a fuzzy success the value of the matched key, a keyword
\* or context success the tag itself; a tag on which all four fail is
\* discarded, the resolved genres being the successes in order.
C10_FirstStrategyWins ==
    Returned =>
        /\ Len(matches) = Len(filtered_tags)
        /\ \A i \in 1..Len(filtered_tags) :
              matches[i] = first_success(extractor, filtered_tags[i], filtered_tags,
                                         fuzzy_of(extractor, filtered_tags[i]))
        /\ genres = appended(SelectSeq(matches, LAMBDA m : m # <<>>))

\* one call in which every strategy decided a tag: exact ("hiphop", "dnb"),
\* context ("k-pop", "good rock"), none ("xyz"), fuzzy (" rock"), keyword
\* ("lo-fi")
C10_Witness ==
    /\ Returned
    /\ extractor.config = GenreExtractionConfig
    /\ lastfm_tags = StrategyTags
    /\ matches = <<<<"hip-hop">>, <<"drum and bass">>, <<"k-pop">>,
                   <<"good rock">>, <<>>,
                   <<"rock">>, <<"lo-fi">>>>

\* the strings that are a genre-indicating keyword
genre_keyword_set(self) == {self.genre_keywords[k] : k \in 1..Len(self.genre_keywords)}

\* the strings that are a non-genre keyword
non_genre_keyword_set(self) ==
    {self.non_genre_keywords[n] : n \in 1..Len(self.non_genre_keywords)}

\* the tag holds a keyword of the set as a substring
holds_keyword(keywords, tag) == \E k \in keywords : str_contains(k, str_lower(tag))

\* C11: the genre-indicating keywords and the non-genre keywords are disjoint;
\* a genre-indicating keyword given alone as a tag, when no exact or fuzzy
\* match takes it first, is accepted by the keyword strategy and resolves to
\* itself; and the keyword strategy accepts a tag exactly when the tag holds
\* a genre-indicating keyword and no non-genre keyword.
C11_KeywordListsDisjoint ==
    /\ genre_keyword_set(extractor) \cap non_genre_keyword_set(extractor) = {}
    /\ Returned =>
          /\ (/\ Len(filtered_tags) = 1
              /\ filtered_tags[1] \in genre_keyword_set(extractor)
              /\ ~dict_has(extractor.known_genres, filtered_tags[1]))
                 => matches[1] # <<>>
          /\ \A i \in 1..Len(filtered_tags) :
                _is_genre_by_keywords(extractor, filtered_tags[i])
                    <=> (/\ holds_keyword(genre_keyword_set(extractor), filtered_tags[i])
                         /\ ~holds_keyword(non_genre_keyword_set(extractor),
                                           filtered_tags[i]))

\* the number of tags of all_tags, the i-th left out, that are taxonomy keys
other_known_genres(self, all_tags, i) ==
    Cardinality({j \in 1..Len(all_tags) :
                    j # i /\ dict_has(self.known_genres, all_tags[j])})

\* the tag holds a musical indicator or a member string of a genre family
holds_indicator(self, tag) ==
    \/ \E w \in {"music", "sound", "beat", "rhythm", "style", "wave"} :
          str_contains(w, str_lower(tag))
    \/ \E f \in 1..Len(self.genre_families) :
          \E g \in 1..Len(self.genre_families[f].genres) :
              str_contains(self.genre_families[f].genres[g], str_lower(tag))

\* the filtered tag i was left to the context strategy: it is no taxonomy
\* key, the fuzzy match gave no key's value for it, and the keyword strategy
\* refused it
left_to_context(i) ==
    /\ ~dict_has(extractor.known_genres, filtered_tags[i])
    /\ matches[i] \in {<<>>, <<filtered_tags[i]>>}
    /\ ~_is_genre_by_keywords(extractor, filtered_tags[i])

\* C12: the context strategy accepts a tag only if at least two other tags of
\* the filtered tags are exact taxonomy keys and the tag holds a musical
\* indicator or a member string of a genre family; with fewer than two such
\* other tags a tag left to the context strategy is discarded, whatever it
\* holds, and with two or more and an indicator it is accepted.  The tags
\* counted are the filtered ones: with the keys "dancehall" and "dnb" in the
\* raw input, the first removed by the rule filter, "k-pop" is discarded.
C12_ContextNeedsTwoKnownGenres ==
    Returned =>
        /\ \A i \in 1..Len(filtered_tags) :
              left_to_context(i) =>
                  (matches[i] = <<filtered_tags[i]>>
                      <=> (/\ other_known_genres(extractor, filtered_tags, i) >= 2
                           /\ holds_indicator(extractor, filtered_tags[i])))
        /\ lastfm_tags = <<Str("dancehall"), Str("dnb"), Str("k-pop")>>
              => matches = <<<<"drum and bass">>, <<>>>>

\* two filtered tags beside "k-pop" are taxonomy keys, and the context strategy
\* accepted "k-pop"
C12_Witness ==
    /\ Returned
    /\ filtered_tags = <<"dnb", "k-pop", "rock">>
    /\ left_to_context(2)
    /\ other_known_genres(extractor, filtered_tags, 2) = 2
    /\ matches[2] = <<"k-pop">>

\* the positions of the filtered tags that resolved to a name whose normal
\* form is a
resolving_to(a) ==
    {i \in 1..Len(matches) : matches[i] # <<>> /\ _normalize_genre_name(matches[i][1]) = a}

\* the position of the first tag resolving to a
first_resolving(a) == CHOOSE i \in resolving_to(a) : \A j \in resolving_to(a) : i <= j

\* C13: the returned list holds the normal forms of the resolved names, each
\* once, in first-seen order: every element is the normal form of some
\* resolved name and every resolved name's normal form is an element, and of
\* two distinct elements a and b, a precedes b exactly when the first tag
\* resolving to a comes before the first tag resolving to b.  The synonym
\* table is applied before the duplicate test.
C13_FirstSeenOrder ==
    Returned =>
        /\ \A p \in 1..Len(result) : resolving_to(result[p]) # {}
        /\ \A i \in 1..Len(matches) :
              matches[i] # <<>> => InSeq(_normalize_genre_name(matches[i][1]), result)
        /\ \A p, q \in 1..Len(result) :
              result[p] # result[q] =>
                  (p < q <=> first_resolving(result[p]) < first_resolving(result[q]))

\* "alt rock" and, two tags later, "alternative" resolved to different names
\* with the normal form "alternative rock", which the returned list holds
\* once, before "folk"
C13_Witness ==
    /\ Returned
    /\ matches = <<<<"alt rock">>, <<"folk">>, <<"alternative">>>>
    /\ result = <<"alternative rock", "folk">>
====
